---------------------------- MODULE Spec2Model ----------------------------
(***************************************************************************)
(* A model of src/main.py: the Flask facade over hyundai_kia_connect_api.  *)
(*                                                                         *)
(* The process-wide state is the module's globals (the credentials read    *)
(* from the environment, VEHICLE_ID, vehicle_manager, init_error).  Every  *)
(* request is served by a worker thread that walks through its handler;    *)
(* a step of a thread is one access to the globals or one call into the    *)
(* library (remote calls succeed or fail as the remote service decides).   *)
(*                                                                         *)
(* Python values are written as strings: "None", "True", "False", "int0"   *)
(* (the integer 0) and plain text.                                         *)
(***************************************************************************)
EXTENDS Integers, Sequences, FiniteSets, TLC

VARIABLES
    USERNAME,         \* os.getenv("KIA_USERNAME"): "None", "" or a value
    PASSWORD,         \* os.getenv("KIA_PASSWORD")
    PIN,              \* os.getenv("KIA_PIN")
    SECRET_KEY,       \* os.getenv("SECRET_KEY")
    VEHICLE_ID,       \* the global VEHICLE_ID ("None" until configured or picked)
    vehicle_manager,  \* the cached handle, NoneVM when None
    init_error,       \* the cached failure reason, NoError when None
    env,              \* the rest of the environment and the library's shape
    profile,          \* which requests and vehicle states the clients and the cloud offer
    threads,          \* the worker threads of the server
    op,               \* per thread: the endpoint being served, "idle" when none
    hdr,              \* per thread: the shared-secret header of the request, "None" when absent
    pc,               \* per thread: the position in the handler
    ini,              \* per thread: the locals of _init_vehicle_manager
    initLog,          \* per thread: what the initialisation run of this request did
    before,           \* per thread: the identity of vehicle_manager when the request arrived
    reason,           \* per thread: init_error when the request arrived
    gate,             \* per thread: what ensure_initialized returned
    loc,              \* per thread: the locals of the handler
    calls,            \* per thread: the library calls the handler itself issued
    resp,             \* per thread: the response, NoResp until the handler returns
    inits             \* successful initialisations since the last forced one

vars == << USERNAME, PASSWORD, PIN, SECRET_KEY, VEHICLE_ID, vehicle_manager, init_error,
           env, profile, threads, op, hdr, pc, ini, initLog, before, reason, gate, loc, calls,
           resp, inits >>

config == << USERNAME, PASSWORD, PIN, SECRET_KEY, env, profile, threads >>

None == "None"

(***************************************************************************)
(* Python truthiness and the `or` of two values.                           *)
(***************************************************************************)
Truthy(x) == x \notin {"None", "False", "int0", ""}

PyOr(a, b) == IF Truthy(a) THEN a ELSE b

(***************************************************************************)
(* Program constants.                                                      *)
(***************************************************************************)
InitAttempts == 2

MinDuration == 1

MaxDuration == 30

DefaultDuration == 10

FallbackDuration == 5

(***************************************************************************)
(* Values.                                                                 *)
(***************************************************************************)
NoneVM == [id |-> 0, vehicles |-> << >>]

NoError == [kind |-> "None", names |-> << >>, err |-> None]

NoResp == [status |-> 0, kind |-> "none"]

NoGate == [ok |-> FALSE, msg |-> NoError, returned |-> FALSE]

NoLog == [loops |-> 0, constructs |-> 0, tokens |-> 0, fetches |-> 0]

NoIni == [attempt |-> 0, idx |-> 0, last_err |-> None, vm |-> NoneVM]

\* The vehicles of the account as the cloud returns them, per profile: the key
\* order of vm.vehicles is the order they were returned in.
VehicleLists(p) ==
    IF p = "gate" THEN { << >>, <<"v1">>, <<"v2">>, <<"v1", "v2">>, <<"v2", "v1">> }
    ELSE IF p = "climate" THEN { << >>, <<"v1">>, <<"v2", "v1">> }
    ELSE { << >>, <<"v1">> }

Range(s) == { s[i] : i \in 1..Len(s) }

(***************************************************************************)
(* _resolve_region_brand: the (region, brand) candidates, in order.  A     *)
(* library module is [present, kia, regions]: whether the import succeeds,  *)
(* whether its Brand has KIA, and the names its Region has.  A candidate is *)
(* [region, brand]; numbers are written as their numerals.                 *)
(***************************************************************************)
\* int() of an environment text: the numeral it denotes; other text raises ValueError.
IntNumerals == [t \in {"1", "2", "3", " 2"} |-> IF t = " 2" THEN "2" ELSE t]

IntParses(text) == text \in DOMAIN IntNumerals

\* One try block of _resolve_region_brand: an exception (ImportError, or the
\* AttributeError of _Brand.KIA raised before the first append) leaves nothing.
_enum_candidates(m) ==
    IF ~m.present \/ ~m.kia THEN << >>
    ELSE (IF "US" \in m.regions THEN << [region |-> "US", brand |-> "KIA"] >> ELSE << >>)
         \o (IF "NORTH_AMERICA" \in m.regions
             THEN << [region |-> "NORTH_AMERICA", brand |-> "KIA"] >> ELSE << >>)

\* os.getenv(name, default) followed by int(): both texts must parse, else (3, 1).
_int_candidate(e) ==
    LET r == IF e.KIA_REGION = None THEN "3" ELSE e.KIA_REGION
        b == IF e.KIA_BRAND = None THEN "1" ELSE e.KIA_BRAND
    IN  IF IntParses(r) /\ IntParses(b)
        THEN [region |-> IntNumerals[r], brand |-> IntNumerals[b]]
        ELSE [region |-> "3", brand |-> "1"]

\* Mutant: the integer fallback of lines 57-62 is lost.
_resolve_region_brand_enums_only(e) ==
    _enum_candidates(e.newEnums) \o _enum_candidates(e.oldEnums)

_resolve_region_brand(e) ==
    _enum_candidates(e.newEnums) \o _enum_candidates(e.oldEnums) \o << _int_candidate(e) >>

(***************************************************************************)
(* _init_vehicle_manager, lines 74-84: the cache hit and the credentials.  *)
(***************************************************************************)
\* Mutant: the early return of line 74 is lost.
AlreadyInitializedNever(vm) == FALSE

\* Mutant: a cached failure reason ends the routine as a cached handle does.
AlreadyInitializedOrFailed(vm) == vm # NoneVM \/ init_error # NoError

AlreadyInitialized(vm) == vm # NoneVM

\* Mutant: only the first missing variable is reported.
_missing_env_first(u, p, n) ==
    IF ~Truthy(u) THEN << "KIA_USERNAME" >>
    ELSE IF ~Truthy(p) THEN << "KIA_PASSWORD" >>
    ELSE IF ~Truthy(n) THEN << "KIA_PIN" >> ELSE << >>

\* [k for k, v in {...}.items() if not v], in the dict's order.
_missing_env(u, p, n) ==
    LET items == << [k |-> "KIA_USERNAME", v |-> u],
                    [k |-> "KIA_PASSWORD", v |-> p],
                    [k |-> "KIA_PIN", v |-> n] >>
        kept == SelectSeq(items, LAMBDA it : ~Truthy(it.v))
    IN  [i \in 1..Len(kept) |-> kept[i].k]

MissingError(names) == [kind |-> "missing", names |-> names, err |-> None]

FailedError(e) == [kind |-> "failed_after_retries", names |-> << >>, err |-> e]

DidNotComplete == [kind |-> "did_not_complete", names |-> << >>, err |-> None]

OkMsg == [kind |-> "ok", names |-> << >>, err |-> None]

\* Where _init_vehicle_manager returns to: debug_init line 165, ensure_initialized line 141.
InitReturn(o) == IF o = "debug_init" THEN "dbg_result" ELSE "ens_check"

\* The identity of a newly constructed VehicleManager: one no live reference has.
FreshId ==
    LET used == {vehicle_manager.id} \cup { ini[t].vm.id : t \in threads }
                    \cup { before[t] : t \in threads }
    IN  CHOOSE n \in 1..(Cardinality(used) + 1) :
            n \notin used /\ \A m \in 1..(n - 1) : m \in used

\* What one pass of lines 92-103 can meet: the constructor, the token refresh or
\* the state fetch raising, or a fetched vehicle set.
InitOutcomes(p) ==
    { [err |-> e, vehicles |-> << >>] :
        e \in IF p = "conc" THEN {"auth_error"}
              ELSE {"construct_error", "auth_error", "fetch_error"} }
    \cup { [err |-> None, vehicles |-> vs] : vs \in VehicleLists(p) }

InitCheck(t) ==
    /\ pc[t] = "init"
    /\ IF AlreadyInitialized(vehicle_manager)
       THEN /\ pc' = [pc EXCEPT ![t] = InitReturn(op[t])]
            /\ UNCHANGED << init_error, ini, initLog >>
       ELSE LET missing == _missing_env(USERNAME, PASSWORD, PIN) IN
            IF missing # << >>
            THEN /\ init_error' = MissingError(missing)
                 /\ pc' = [pc EXCEPT ![t] = InitReturn(op[t])]
                 /\ UNCHANGED << ini, initLog >>
            ELSE /\ ini' = [ini EXCEPT ![t] = [attempt |-> 1, idx |-> 1,
                                               last_err |-> None, vm |-> NoneVM]]
                 /\ initLog' = [initLog EXCEPT ![t].loops = @ + 1]
                 /\ pc' = [pc EXCEPT ![t] = "init_try"]
                 /\ UNCHANGED init_error
    /\ UNCHANGED << config, VEHICLE_ID, vehicle_manager, op, hdr, before, reason, gate,
                    loc, calls, resp, inits >>

\* Lines 89-106 for one candidate, and the except clause with the loops' advance.
InitTry(t) ==
    /\ pc[t] = "init_try"
    /\ \E out \in InitOutcomes(profile) :
        LET cands == _resolve_region_brand(env)
            e == IF out.err = None /\ out.vehicles = << >> THEN "no_vehicles" ELSE out.err
            lastCand == ini[t].idx >= Len(cands)
            nextAttempt == IF lastCand THEN ini[t].attempt + 1 ELSE ini[t].attempt
        IN  /\ initLog' = [initLog EXCEPT
                   ![t].constructs = @ + 1,
                   ![t].tokens = @ + (IF out.err = "construct_error" THEN 0 ELSE 1),
                   ![t].fetches = @ + (IF out.err \in {"construct_error", "auth_error"}
                                       THEN 0 ELSE 1)]
            /\ IF e = None
               THEN /\ VEHICLE_ID' = IF ~Truthy(VEHICLE_ID) THEN out.vehicles[1]
                                     ELSE VEHICLE_ID
                    /\ ini' = [ini EXCEPT ![t].vm = [id |-> FreshId, vehicles |-> out.vehicles]]
                    /\ pc' = [pc EXCEPT ![t] = "init_set_vm"]
               ELSE /\ ini' = [ini EXCEPT ![t].last_err = e,
                                          ![t].attempt = nextAttempt,
                                          ![t].idx = IF lastCand THEN 1 ELSE @ + 1]
                    /\ pc' = [pc EXCEPT ![t] = IF nextAttempt > InitAttempts
                                               THEN "init_fail" ELSE "init_try"]
                    /\ UNCHANGED VEHICLE_ID
    /\ UNCHANGED << config, vehicle_manager, init_error, op, hdr, before, reason, gate,
                    loc, calls, resp, inits >>

\* Line 128.
InitSetManager(t) ==
    /\ pc[t] = "init_set_vm"
    /\ vehicle_manager' = ini[t].vm
    /\ inits' = inits + 1
    /\ pc' = [pc EXCEPT ![t] = "init_set_err"]
    /\ UNCHANGED << config, VEHICLE_ID, init_error, op, hdr, ini, initLog, before, reason,
                    gate, loc, calls, resp >>

\* Lines 129-130.
InitClearError(t) ==
    /\ pc[t] = "init_set_err"
    /\ init_error' = NoError
    /\ ini' = [ini EXCEPT ![t] = NoIni]
    /\ pc' = [pc EXCEPT ![t] = InitReturn(op[t])]
    /\ UNCHANGED << config, VEHICLE_ID, vehicle_manager, op, hdr, initLog, before, reason,
                    gate, loc, calls, resp, inits >>

\* Line 136.
InitFail(t) ==
    /\ pc[t] = "init_fail"
    /\ init_error' = FailedError(ini[t].last_err)
    /\ ini' = [ini EXCEPT ![t] = NoIni]
    /\ pc' = [pc EXCEPT ![t] = InitReturn(op[t])]
    /\ UNCHANGED << config, VEHICLE_ID, vehicle_manager, op, hdr, initLog, before, reason,
                    gate, loc, calls, resp, inits >>

(***************************************************************************)
(* ensure_initialized, lines 141-143, after _init_vehicle_manager returned. *)
(***************************************************************************)
EnsureCheck(t) ==
    /\ pc[t] = "ens_check"
    /\ gate' = [gate EXCEPT ![t] =
          IF vehicle_manager = NoneVM
          THEN [ok |-> FALSE,
                msg |-> IF init_error # NoError THEN init_error ELSE DidNotComplete,
                returned |-> TRUE]
          ELSE [ok |-> TRUE, msg |-> OkMsg, returned |-> TRUE]]
    /\ pc' = [pc EXCEPT ![t] = "gate"]
    /\ UNCHANGED << config, VEHICLE_ID, vehicle_manager, init_error, op, hdr, ini,
                    initLog, before, reason, loc, calls, resp, inits >>

(***************************************************************************)
(* The request of start_climate: request.get_json(silent=True) is "absent"  *)
(* (no or invalid JSON), an "object" or another JSON value ("array": a      *)
(* non-empty list).  A duration is [kind, num, text]: absent, an int, a     *)
(* float (num is the value in tenths), a text, or null.                     *)
(***************************************************************************)
Dur(k, n, s) == [kind |-> k, num |-> n, text |-> s]

\* int() of a JSON text: a numeral's value; other text raises ValueError.
TextInts == [s \in {"15", "45"} |-> IF s = "15" THEN 15 ELSE 45]

\* int() of a float truncates toward zero.
Trunc10(n) == IF n >= 0 THEN n \div 10 ELSE -((-n) \div 10)

\* Lines 262-265: int(body.get("duration", 10)), 10 when int() raises.
_parse_duration(d) ==
    CASE d.kind = "absent" -> DefaultDuration
      [] d.kind = "int" -> d.num
      [] d.kind = "float" -> Trunc10(d.num)
      [] d.kind = "text" -> IF d.text \in DOMAIN TextInts THEN TextInts[d.text]
                            ELSE DefaultDuration
      [] OTHER -> DefaultDuration

Min(a, b) == IF a <= b THEN a ELSE b

Max(a, b) == IF a >= b THEN a ELSE b

\* Mutant: the lower bound of the clamp is lost.
_clamp_duration_upper_only(n) == Min(n, MaxDuration)

\* Line 266.
_clamp_duration(n) == Max(MinDuration, Min(n, MaxDuration))

\* Line 269: os.getenv("CLIMATE_DEGREES", "F").upper().
_units(e) ==
    IF e.CLIMATE_DEGREES = None THEN "F"
    ELSE IF e.CLIMATE_DEGREES = "c" THEN "C" ELSE e.CLIMATE_DEGREES

\* Lines 270-271.
_temperature(body, e) ==
    LET default_temp == IF _units(e) = "F" THEN "72" ELSE "22"
    IN  IF body.temperature = "absent" THEN default_temp ELSE body.temperature

\* bool(body.get(key, False)).
_flag(x) == IF x = "absent" THEN FALSE ELSE Truthy(x)

EmptyBody == [shape |-> "absent", duration |-> Dur("absent", 0, ""), defrost |-> "absent",
              temperature |-> "absent", force |-> "absent"]

\* _apply_temperature: whether one of the probed attribute names took the value.
_apply_temperature(e, temp) == IF temp = None THEN FALSE ELSE e.tempAttr

\* Lines 339-350: the options of the primary call.
_primary_opts(e, duration, defrost, temperature) ==
    IF e.kwCtor
    THEN [duration |-> duration, defrost |-> defrost, temp |-> temperature]
    ELSE [duration |-> duration, defrost |-> defrost,
          temp |-> IF _apply_temperature(e, temperature) THEN temperature ELSE "unset"]

\* Lines 363-364: the options of the fallback call.
_fallback_opts(e, temperature) ==
    [duration |-> FallbackDuration, defrost |-> FALSE,
     temp |-> IF _apply_temperature(e, temperature) THEN temperature ELSE "unset"]

NoOpts == [duration |-> 0, defrost |-> FALSE, temp |-> "unset"]

NoExc == [response |-> None, text |-> ""]

NoSnap == [locked |-> None, any_door_open |-> None, hood_open |-> None,
           trunk_open |-> None, ignition_on |-> None, gear |-> None]

NoLoc == [body |-> EmptyBody, duration |-> 0, defrost |-> FALSE, temperature |-> None,
          force |-> FALSE, snap |-> NoSnap, seen |-> None, e1 |-> NoExc]

Call(name, ok, opts) == [name |-> name, ok |-> ok, opts |-> opts]

(***************************************************************************)
(* The precondition check of start_climate.  A vehicle object is a record   *)
(* of the attributes getattr probes; an attribute the library's Vehicle     *)
(* lacks reads as None.                                                     *)
(***************************************************************************)
\* Lines 286-294.
_vehicle_state_snapshot(v) ==
    [locked |-> v.is_locked,
     any_door_open |-> PyOr(v.is_any_door_open, v.door_open),
     hood_open |-> PyOr(v.hood_open, v.is_hood_open),
     trunk_open |-> PyOr(PyOr(v.trunk_open, v.is_trunk_open), v.is_tailgate_open),
     ignition_on |-> PyOr(v.ignition_on, v.engine_on),
     gear |-> PyOr(PyOr(v.gear, v.transmission_gear), v.gear_position)]

\* Line 318: gear not in (None, "P", "Park", "park", 0); False == 0 in Python.
_gear_ok(gear) == gear \in {None, "P", "Park", "park", "int0", "False"}

\* Mutant: the hood is not checked.
_preflight_missing_no_hood(s) ==
    (IF s.locked = "False" THEN << "Doors must be locked" >> ELSE << >>)
    \o (IF s.any_door_open = "True" THEN << "All doors must be closed" >> ELSE << >>)
    \o (IF s.trunk_open = "True" THEN << "Trunk/tailgate must be closed" >> ELSE << >>)
    \o (IF s.ignition_on = "True" THEN << "Ignition/ACC must be off" >> ELSE << >>)
    \o (IF ~_gear_ok(s.gear) THEN << "Transmission must be in Park" >> ELSE << >>)

\* Lines 306-320: the list of unmet preconditions, in the order of the checks.
_preflight_missing(s) ==
    (IF s.locked = "False" THEN << "Doors must be locked" >> ELSE << >>)
    \o (IF s.any_door_open = "True" THEN << "All doors must be closed" >> ELSE << >>)
    \o (IF s.hood_open = "True" THEN << "Hood must be closed" >> ELSE << >>)
    \o (IF s.trunk_open = "True" THEN << "Trunk/tailgate must be closed" >> ELSE << >>)
    \o (IF s.ignition_on = "True" THEN << "Ignition/ACC must be off" >> ELSE << >>)
    \o (IF ~_gear_ok(s.gear) THEN << "Transmission must be in Park" >> ELSE << >>)

(***************************************************************************)
(* The handlers.                                                           *)
(***************************************************************************)
Endpoints == {"health", "debug_init", "debug_vehicles", "status", "lock_car",
              "unlock_car", "start_climate", "debug_capabilities", "stop_climate"}

\* The requests a worker thread is given, per profile: with two threads, the
\* second serves the forced re-initialisation while the first serves the others.
EndpointsOf(p, t) ==
    IF p # "conc" THEN Endpoints
    ELSE IF t = "t2" THEN {"debug_init"}
    ELSE {"health", "debug_vehicles", "lock_car", "start_climate"}

\* The handler returns: its locals die with it.
Respond(t, r) ==
    /\ resp' = [resp EXCEPT ![t] = r]
    /\ pc' = [pc EXCEPT ![t] = "done"]
    /\ loc' = [loc EXCEPT ![t] = NoLoc]

\* The except clause of the handler: the 500 carrying the traceback.
HandlerError(o) == [status |-> 500, kind |-> "handler_error", endpoint |-> o]

Log(t, name, ok, opts) == calls' = [calls EXCEPT ![t] = Append(@, Call(name, ok, opts))]

\* The shared-secret header the clients send, per profile.
Headers(p) == IF p = "auth" THEN {None, "wrong", "s3cret"} ELSE {"s3cret"}

\* A request arrives; the before_request hook (lines 146-148) logs its method
\* and path and returns nothing, and Flask dispatches it to the endpoint's
\* handler.  No line of the module reads a header of the request.
Begin(t) ==
    /\ pc[t] = "idle"
    /\ \E o \in EndpointsOf(profile, t), h \in Headers(profile) :
        /\ op' = [op EXCEPT ![t] = o]
        /\ hdr' = [hdr EXCEPT ![t] = h]
        /\ pc' = [pc EXCEPT ![t] = IF o = "debug_init" THEN "dbg_reset" ELSE "init"]
    /\ before' = [before EXCEPT ![t] = vehicle_manager.id]
    /\ reason' = [reason EXCEPT ![t] = init_error]
    /\ UNCHANGED << config, VEHICLE_ID, vehicle_manager, init_error, ini, initLog, gate,
                    loc, calls, resp, inits >>

\* Mutant: debug_init keeps the cached handle.
DebugResetKeepsHandle(t) ==
    /\ pc[t] = "dbg_reset"
    /\ init_error' = NoError
    /\ pc' = [pc EXCEPT ![t] = "init"]
    /\ UNCHANGED << config, VEHICLE_ID, vehicle_manager, inits, op, hdr, ini, initLog,
                    before, reason, gate, loc, calls, resp >>

\* debug_init, lines 162-163.
DebugReset(t) ==
    /\ pc[t] = "dbg_reset"
    /\ vehicle_manager' = NoneVM
    /\ init_error' = NoError
    /\ inits' = 0
    /\ pc' = [pc EXCEPT ![t] = "init"]
    /\ UNCHANGED << config, VEHICLE_ID, op, hdr, ini, initLog, before, reason, gate, loc,
                    calls, resp >>

\* debug_init, lines 165-179.
DebugResult(t) ==
    /\ pc[t] = "dbg_result"
    /\ LET ok == vehicle_manager # NoneVM IN
       Respond(t, [status |-> IF ok THEN 200 ELSE 500, kind |-> "debug_init", ok |-> ok,
                   init_error |-> IF ok THEN NoError ELSE init_error,
                   vehicle_ids |-> IF ok THEN vehicle_manager.vehicles ELSE << >>])
    /\ initLog' = [initLog EXCEPT ![t] = NoLog]
    /\ UNCHANGED << config, VEHICLE_ID, vehicle_manager, init_error, op, hdr, ini, before,
                    reason, gate, calls, inits >>

\* `ok, msg = ensure_initialized()` and the `if not ok` that follows it; health
\* answers either way (lines 153-155).
FirstStep(o) ==
    CASE o \in {"debug_vehicles", "status", "debug_capabilities"} -> "update"
      [] o \in {"lock_car", "unlock_car", "stop_climate"} -> "token"
      [] OTHER -> "sc_parse"

\* Mutant: the `if not ok` of the handlers is lost.
GateAlwaysProceeds(t) ==
    /\ pc[t] = "gate"
    /\ IF op[t] = "health"
       THEN Respond(t, [status |-> IF gate[t].ok THEN 200 ELSE 500, kind |-> "health",
                        message |-> gate[t].msg])
       ELSE /\ pc' = [pc EXCEPT ![t] = FirstStep(op[t])]
            /\ UNCHANGED << loc, resp >>
    /\ initLog' = [initLog EXCEPT ![t] = NoLog]
    /\ UNCHANGED << config, VEHICLE_ID, vehicle_manager, init_error, op, hdr, ini, before,
                    reason, gate, calls, inits >>

Gate(t) ==
    /\ pc[t] = "gate"
    /\ IF op[t] = "health"
       THEN Respond(t, [status |-> IF gate[t].ok THEN 200 ELSE 500, kind |-> "health",
                        message |-> gate[t].msg])
       ELSE IF ~gate[t].ok
       THEN Respond(t, [status |-> 500, kind |-> "not_ready", error |-> gate[t].msg])
       ELSE /\ pc' = [pc EXCEPT ![t] = FirstStep(op[t])]
            /\ UNCHANGED << loc, resp >>
    /\ initLog' = [initLog EXCEPT ![t] = NoLog]
    /\ UNCHANGED << config, VEHICLE_ID, vehicle_manager, init_error, op, hdr, ini, before,
                    reason, gate, calls, inits >>

\* vehicle_manager.check_and_refresh_token(): lines 231, 246, 323, 412.  A renewed
\* token re-reads the account's vehicles.  On None the attribute access raises.
RefreshToken(t) ==
    /\ pc[t] = "token"
    /\ IF vehicle_manager = NoneVM
       THEN /\ Respond(t, HandlerError(op[t]))
            /\ UNCHANGED << vehicle_manager, calls >>
       ELSE \E ok \in BOOLEAN, vs \in VehicleLists(profile) :
            /\ Log(t, "check_and_refresh_token", ok, NoOpts)
            /\ IF ok
               THEN /\ vehicle_manager' = [vehicle_manager EXCEPT !.vehicles = vs]
                    /\ pc' = [pc EXCEPT ![t] = IF op[t] = "stop_climate" THEN "command"
                                               ELSE "update"]
                    /\ UNCHANGED << loc, resp >>
               ELSE /\ Respond(t, HandlerError(op[t]))
                    /\ UNCHANGED vehicle_manager
    /\ UNCHANGED << config, VEHICLE_ID, init_error, op, hdr, ini, initLog, before, reason,
                    gate, inits >>

\* vehicle_manager.update_all_vehicles_with_cached_state(): lines 188, 204, 232,
\* 247, 324, 388.
AfterUpdate(o) ==
    CASE o = "debug_vehicles" -> "list"
      [] o \in {"lock_car", "unlock_car"} -> "command"
      [] OTHER -> "lookup"

UpdateState(t) ==
    /\ pc[t] = "update"
    /\ IF vehicle_manager = NoneVM
       THEN /\ Respond(t, HandlerError(op[t]))
            /\ UNCHANGED calls
       ELSE \E ok \in BOOLEAN :
            /\ Log(t, "update_all_vehicles_with_cached_state", ok, NoOpts)
            /\ IF ok
               THEN /\ pc' = [pc EXCEPT ![t] = AfterUpdate(op[t])]
                    /\ UNCHANGED << loc, resp >>
               ELSE Respond(t, HandlerError(op[t]))
    /\ UNCHANGED << config, VEHICLE_ID, vehicle_manager, init_error, op, hdr, ini,
                    initLog, before, reason, gate, inits >>

\* debug_vehicles, lines 189-192.
ListVehicles(t) ==
    /\ pc[t] = "list"
    /\ IF vehicle_manager = NoneVM
       THEN Respond(t, HandlerError(op[t]))
       ELSE Respond(t, [status |-> 200, kind |-> "vehicles",
                        vehicle_ids |-> vehicle_manager.vehicles])
    /\ UNCHANGED << config, VEHICLE_ID, vehicle_manager, init_error, op, hdr, ini,
                    initLog, before, reason, gate, calls, inits >>

\* lock_car line 233, unlock_car line 248, stop_climate line 413.
CommandName(o) ==
    CASE o = "lock_car" -> "lock" [] o = "unlock_car" -> "unlock" [] OTHER -> "stop_climate"

\* Mutant: a command that raised discards the handle.
CommandDropsHandle(t) ==
    /\ pc[t] = "command"
    /\ IF vehicle_manager = NoneVM
       THEN /\ Respond(t, HandlerError(op[t]))
            /\ UNCHANGED << vehicle_manager, calls >>
       ELSE \E ok \in BOOLEAN :
            /\ Log(t, CommandName(op[t]), ok, NoOpts)
            /\ IF ok
               THEN /\ Respond(t, [status |-> 200, kind |-> CommandName(op[t])])
                    /\ UNCHANGED vehicle_manager
               ELSE /\ Respond(t, HandlerError(op[t]))
                    /\ vehicle_manager' = NoneVM
    /\ UNCHANGED << config, VEHICLE_ID, init_error, op, hdr, ini,
                    initLog, before, reason, gate, inits >>

Command(t) ==
    /\ pc[t] = "command"
    /\ IF vehicle_manager = NoneVM
       THEN /\ Respond(t, HandlerError(op[t]))
            /\ UNCHANGED calls
       ELSE \E ok \in BOOLEAN :
            /\ Log(t, CommandName(op[t]), ok, NoOpts)
            /\ IF ok
               THEN Respond(t, [status |-> 200, kind |-> CommandName(op[t])])
               ELSE Respond(t, HandlerError(op[t]))
    /\ UNCHANGED << config, VEHICLE_ID, vehicle_manager, init_error, op, hdr, ini,
                    initLog, before, reason, gate, inits >>

\* vehicle_manager.vehicles.get(VEHICLE_ID) and `if not v`: status lines 205-219,
\* start_climate lines 325-329, debug_capabilities lines 389-400.
\* Mutant: the `if not v` test is lost.
VehicleFoundAlways(vm, id) == TRUE

VehicleFound(vm, id) == id \in Range(vm.vehicles)

\* Mutant: force is ignored.
AfterLookupAlwaysPreflight(force) == "sc_preflight"

\* Line 329: `if not force` guards the preflight.
AfterLookup(force) == IF force THEN "sc_start" ELSE "sc_preflight"

Lookup(t) ==
    /\ pc[t] = "lookup"
    /\ IF vehicle_manager = NoneVM
       THEN Respond(t, HandlerError(op[t]))
       ELSE IF ~VehicleFound(vehicle_manager, VEHICLE_ID)
       THEN Respond(t, [status |-> 404, kind |-> "not_found", vehicle_id |-> VEHICLE_ID])
       ELSE IF op[t] = "start_climate"
       THEN /\ pc' = [pc EXCEPT ![t] = AfterLookup(loc[t].force)]
            /\ UNCHANGED << loc, resp >>
       ELSE Respond(t, [status |-> 200, kind |-> op[t], vehicle_id |-> VEHICLE_ID])
    /\ UNCHANGED << config, VEHICLE_ID, vehicle_manager, init_error, op, hdr, ini,
                    initLog, before, reason, gate, calls, inits >>

(***************************************************************************)
(* start_climate.                                                          *)
(***************************************************************************)
VehicleObject(l, door, hood, trunk, ign, gear) ==
    [is_locked |-> l,
     is_any_door_open |-> door[1], door_open |-> door[2],
     hood_open |-> hood[1], is_hood_open |-> hood[2],
     trunk_open |-> trunk[1], is_trunk_open |-> trunk[2], is_tailgate_open |-> trunk[3],
     ignition_on |-> ign[1], engine_on |-> ign[2],
     gear |-> gear[1], transmission_gear |-> gear[2], gear_position |-> gear[3]]

SafeVehicle ==
    VehicleObject("True", <<"False", None>>, <<None, None>>, <<None, None, None>>,
                  <<None, None>>, <<"P", None, None>>)

\* The vehicle states the cloud reports, per profile.
WideVehicles ==
    { VehicleObject(l, door, hood, trunk, ign, gear) :
        l \in {None, "True", "False"},
        door \in { <<None, None>>, <<"True", None>>, <<None, "False">> },
        hood \in { <<None, None>>, <<"False", "True">> },
        trunk \in { <<None, None, None>>, <<"False", None, "True">>, <<"False", "False", "False">> },
        ign \in { <<None, None>>, <<"True", None>> },
        gear \in { <<None, None, None>>, <<"P", None, None>>, <<"int0", None, "D">>,
                   <<"int0", "int0", "int0">> } }

NarrowVehicles ==
    { SafeVehicle,
      [SafeVehicle EXCEPT !.is_locked = "False"],
      [SafeVehicle EXCEPT !.is_hood_open = "True", !.gear = "D"] }

Vehicles(p) == IF p = "climate" THEN WideVehicles ELSE NarrowVehicles

\* The request bodies the clients send, per profile.
ArrayBody == [EmptyBody EXCEPT !.shape = "array"]

WideDurations ==
    { Dur("absent", 0, ""), Dur("null", 0, ""), Dur("text", 0, "15"), Dur("text", 0, "soon"),
      Dur("float", 125, ""), Dur("float", 5, "") }
    \cup { Dur("int", n, "") : n \in {-3, 0, 1, 7, 30, 31, 99} }

WideBodies ==
    { [shape |-> "object", duration |-> d, defrost |-> x[1], temperature |-> x[2],
       force |-> f] :
        d \in WideDurations, x \in { <<"absent", "absent">>, <<"True", "68">> },
        f \in {"absent", "True"} }
    \cup { EmptyBody, ArrayBody }

NarrowBodies ==
    { EmptyBody, ArrayBody,
      [EmptyBody EXCEPT !.shape = "object", !.force = "True", !.defrost = "True",
                        !.duration = Dur("int", 99, "")] }

Bodies(p) == IF p = "climate" THEN WideBodies ELSE NarrowBodies

\* Lines 261-272.  A JSON value that is no object has no .get: line 263 raises inside
\* the try (duration = 10), line 267 raises outside every try.
ParseBody(t) ==
    /\ pc[t] = "sc_parse"
    /\ \E body \in Bodies(profile) :
        IF body.shape = "array"
        THEN Respond(t, [status |-> 500, kind |-> "unhandled", endpoint |-> op[t]])
        ELSE /\ loc' = [loc EXCEPT ![t] =
                    [body |-> body,
                     duration |-> _clamp_duration(_parse_duration(body.duration)),
                     defrost |-> _flag(body.defrost),
                     temperature |-> _temperature(body, env),
                     force |-> _flag(body.force),
                     snap |-> NoSnap, seen |-> None, e1 |-> NoExc]]
             /\ pc' = [pc EXCEPT ![t] = "token"]
             /\ UNCHANGED resp
    /\ UNCHANGED << config, VEHICLE_ID, vehicle_manager, init_error, op, hdr, ini,
                    initLog, before, reason, gate, calls, inits >>

\* Mutant: the snapshot is marked locked even when the lock call raised.
_try_lock_assumes_success(s, called, ok) ==
    IF s.locked = "False" /\ called THEN [s EXCEPT !.locked = "True"] ELSE s

\* Lines 300-305: one lock call when the snapshot says unlocked; its failure is
\* swallowed.  `called`: the call reached the library; `ok`: it returned.
_try_lock(s, called, ok) ==
    IF s.locked = "False" /\ called /\ ok THEN [s EXCEPT !.locked = "True"] ELSE s

\* Whether the preflight proceeds from the snapshot to the lock call.
_wants_lock(s) == s.locked = "False"

\* Lines 330-336, _preflight included.  `seen` keeps the value of s["locked"]
\* that line 300 tested, `snap` the snapshot _preflight returned.
Preflight(t) ==
    /\ pc[t] = "sc_preflight"
    /\ \E v \in Vehicles(profile), lockOk \in BOOLEAN :
        LET s0 == _vehicle_state_snapshot(v)
            called == _wants_lock(s0) /\ vehicle_manager # NoneVM
            s == _try_lock(s0, called, lockOk)
            missing == _preflight_missing(s)
        IN  /\ calls' = [calls EXCEPT ![t] =
                   IF called THEN Append(@, Call("lock", lockOk, NoOpts)) ELSE @]
            /\ IF missing # << >>
               THEN Respond(t, [status |-> 400, kind |-> "precondition",
                                missing |-> missing, snapshot |-> s])
               ELSE /\ loc' = [loc EXCEPT ![t].snap = s, ![t].seen = s0.locked]
                    /\ pc' = [pc EXCEPT ![t] = "sc_start"]
                    /\ UNCHANGED resp
    /\ UNCHANGED << config, VEHICLE_ID, vehicle_manager, init_error, op, hdr, ini,
                    initLog, before, reason, gate, inits >>

AttributeError == [response |-> None, text |-> "AttributeError"]

\* Lines 339-361: the options and the primary call.
StartPrimary(t) ==
    /\ pc[t] = "sc_start"
    /\ LET opts == _primary_opts(env, loc[t].duration, loc[t].defrost, loc[t].temperature) IN
       IF vehicle_manager = NoneVM
       THEN /\ loc' = [loc EXCEPT ![t].e1 = AttributeError, ![t].snap = NoSnap,
                                       ![t].seen = None]
            /\ pc' = [pc EXCEPT ![t] = "sc_fallback"]
            /\ UNCHANGED << calls, resp >>
       ELSE \E ok \in BOOLEAN, r \in {None, "primary response"} :
            /\ Log(t, "start_climate", ok, opts)
            /\ IF ok
               THEN Respond(t, [status |-> 200, kind |-> "climate_started", note |-> None])
               ELSE /\ loc' = [loc EXCEPT ![t].e1 = [response |-> r, text |-> "primary error"],
                                          ![t].snap = NoSnap, ![t].seen = None]
                    /\ pc' = [pc EXCEPT ![t] = "sc_fallback"]
                    /\ UNCHANGED resp
    /\ UNCHANGED << config, VEHICLE_ID, vehicle_manager, init_error, op, hdr, ini,
                    initLog, before, reason, gate, inits >>

\* Line 369: getattr(e2, "response", None) or getattr(e1, "response", None) or str(e2).
_failure_detail(e1, e2) == PyOr(PyOr(e2.response, e1.response), e2.text)

\* Lines 370-374; `raised` is what the handler caught and logged, not part of the body.
StartFailed(t, e2) ==
    [status |-> 500, kind |-> "start_failed", detail |-> _failure_detail(loc[t].e1, e2),
     raised |-> << loc[t].e1, e2 >>,
     debug |-> [duration |-> loc[t].duration, defrost |-> loc[t].defrost,
                temp |-> loc[t].temperature, units |-> _units(env)]]

\* Lines 362-374: the fallback call.
StartFallback(t) ==
    /\ pc[t] = "sc_fallback"
    /\ LET opts2 == _fallback_opts(env, loc[t].temperature) IN
       IF vehicle_manager = NoneVM
       THEN /\ Respond(t, StartFailed(t, AttributeError))
            /\ UNCHANGED calls
       ELSE \E ok \in BOOLEAN, r \in {None, "fallback response"} :
            /\ Log(t, "start_climate", ok, opts2)
            /\ IF ok
               THEN Respond(t, [status |-> 200, kind |-> "climate_started",
                                note |-> "fallback options used"])
               ELSE Respond(t, StartFailed(t, [response |-> r, text |-> "fallback error"]))
    /\ UNCHANGED << config, VEHICLE_ID, vehicle_manager, init_error, op, hdr, ini,
                    initLog, before, reason, gate, inits >>

\* The response is sent; the worker thread takes the next request.
Finish(t) ==
    /\ pc[t] = "done"
    /\ pc' = [pc EXCEPT ![t] = "idle"]
    /\ op' = [op EXCEPT ![t] = "idle"]
    /\ hdr' = [hdr EXCEPT ![t] = None]
    /\ resp' = [resp EXCEPT ![t] = NoResp]
    /\ calls' = [calls EXCEPT ![t] = << >>]
    /\ gate' = [gate EXCEPT ![t] = NoGate]
    /\ before' = [before EXCEPT ![t] = 0]
    /\ reason' = [reason EXCEPT ![t] = NoError]
    /\ UNCHANGED << config, VEHICLE_ID, vehicle_manager, init_error, ini, initLog, loc,
                    inits >>

(***************************************************************************)
(* The environments the process starts in, per profile.                    *)
(***************************************************************************)
Module(present, kia, regions) == [present |-> present, kia |-> kia, regions |-> regions]

AbsentModule == Module(FALSE, FALSE, {})

Env(region, brand, degrees, vid, new, old, kw, attr) ==
    [KIA_REGION |-> region, KIA_BRAND |-> brand, CLIMATE_DEGREES |-> degrees,
     VEHICLE_ID |-> vid, newEnums |-> new, oldEnums |-> old, kwCtor |-> kw,
     tempAttr |-> attr]

CredValues == {None, "", "set"}

\* SECRET_KEY, per profile; lines 28-29 hand a set one to Flask's session signing.
SecretKeys(p) == IF p = "auth" THEN {None, "s3cret"} ELSE {"s3cret"}

GateEnvs ==
    { Env(None, None, None, None, AbsentModule, AbsentModule, TRUE, FALSE),
      Env(" 2", "1", None, "v1", Module(TRUE, TRUE, {"US"}), AbsentModule, TRUE, FALSE),
      Env("eu", "2", None, None, Module(TRUE, FALSE, {"US"}),
          Module(TRUE, TRUE, {"US", "NORTH_AMERICA"}), TRUE, FALSE),
      Env(None, None, None, "v1", Module(TRUE, TRUE, {"NORTH_AMERICA"}),
          Module(TRUE, TRUE, {"US"}), FALSE, TRUE) }

ClimateEnvs ==
    { Env(None, None, None, None, AbsentModule, AbsentModule, TRUE, FALSE),
      Env(None, None, "c", "v1", AbsentModule, AbsentModule, FALSE, TRUE),
      Env(None, None, "C", None, AbsentModule, AbsentModule, FALSE, FALSE),
      Env(None, None, "F", "v1", AbsentModule, AbsentModule, TRUE, TRUE) }

ConcEnvs == { Env(None, None, None, None, AbsentModule, AbsentModule, TRUE, FALSE) }

InitWith(p, ths, creds, envs) ==
    /\ profile = p
    /\ threads = ths
    /\ USERNAME \in creds
    /\ PASSWORD \in creds
    /\ PIN \in creds
    /\ SECRET_KEY \in SecretKeys(p)
    /\ env \in envs
    /\ VEHICLE_ID = env.VEHICLE_ID
    /\ vehicle_manager = NoneVM
    /\ init_error = NoError
    /\ op = [t \in ths |-> "idle"]
    /\ hdr = [t \in ths |-> None]
    /\ pc = [t \in ths |-> "idle"]
    /\ ini = [t \in ths |-> NoIni]
    /\ initLog = [t \in ths |-> NoLog]
    /\ before = [t \in ths |-> 0]
    /\ reason = [t \in ths |-> NoError]
    /\ gate = [t \in ths |-> NoGate]
    /\ loc = [t \in ths |-> NoLoc]
    /\ calls = [t \in ths |-> << >>]
    /\ resp = [t \in ths |-> NoResp]
    /\ inits = 0

\* One request at a time, every configuration.
Init == InitWith("gate", {"t1"}, CredValues, GateEnvs)

\* One request at a time, every start_climate request and vehicle state.
InitClimate == InitWith("climate", {"t1"}, {"", "set"}, ClimateEnvs)

\* Two worker threads.
InitConc == InitWith("conc", {"t1", "t2"}, {"set"}, ConcEnvs)

\* One request at a time, with and without the shared-secret header.
InitAuth == InitWith("auth", {"t1"}, {"set"}, ConcEnvs)

Next ==
    \E t \in threads :
        \/ Begin(t)
        \/ DebugReset(t)
        \/ InitCheck(t)
        \/ InitTry(t)
        \/ InitSetManager(t)
        \/ InitClearError(t)
        \/ InitFail(t)
        \/ EnsureCheck(t)
        \/ DebugResult(t)
        \/ Gate(t)
        \/ RefreshToken(t)
        \/ UpdateState(t)
        \/ ListVehicles(t)
        \/ Command(t)
        \/ Lookup(t)
        \/ ParseBody(t)
        \/ Preflight(t)
        \/ StartPrimary(t)
        \/ StartFallback(t)
        \/ Finish(t)

Spec == Init /\ [][Next]_vars

SpecClimate == InitClimate /\ [][Next]_vars

SpecConc == InitConc /\ [][Next]_vars

SpecAuth == InitAuth /\ [][Next]_vars

\* One request at a time with the credentials set; a thread inside
\* _init_vehicle_manager keeps running: each library call returns or raises,
\* and the sleep of line 134 ends.
InitLive == InitWith("gate", {"t1"}, {"set"}, GateEnvs)

InitSteps ==
    \E t \in threads :
        InitCheck(t) \/ InitTry(t) \/ InitSetManager(t) \/ InitClearError(t) \/ InitFail(t)

SpecLive == InitLive /\ [][Next]_vars /\ WF_vars(InitSteps)

(***************************************************************************)
(* Properties.                                                             *)
(***************************************************************************)
\* The required variables that are unset or empty.
MissingNames ==
    (IF USERNAME \in {None, ""} THEN {"KIA_USERNAME"} ELSE {})
    \cup (IF PASSWORD \in {None, ""} THEN {"KIA_PASSWORD"} ELSE {})
    \cup (IF PIN \in {None, ""} THEN {"KIA_PIN"} ELSE {})

CountCalls(cs, name) == Cardinality({ i \in 1..Len(cs) : cs[i].name = name })

\* C1: with a credential missing or empty, a readiness check (and the request it
\* gates) fails with a reason naming every missing variable, caches no handle,
\* constructs no VehicleManager and makes no remote call.
C1_MissingCredentialsFail ==
    \A t \in threads :
        (MissingNames # {} /\ pc[t] \in {"gate", "dbg_result", "done"}) =>
            /\ vehicle_manager = NoneVM
            /\ init_error.kind = "missing"
            /\ Range(init_error.names) = MissingNames
            /\ Len(init_error.names) = Cardinality(MissingNames)
            /\ initLog[t] = NoLog
            /\ calls[t] = << >>
            /\ pc[t] = "gate" => (~gate[t].ok /\ gate[t].msg = init_error)
            /\ pc[t] = "done" => resp[t].status = 500

\* C1: a state where the case of the claim has happened.
C1_Witness ==
    \E t \in threads :
        /\ pc[t] = "gate"
        /\ gate[t].returned
        /\ Cardinality(MissingNames) >= 2
        /\ Len(gate[t].msg.names) >= 2

\* C2: with a handle cached when the request arrives, ensure_initialized returns
\* ready without constructing a session or calling the remote service and
\* leaves the handle in place; between forced re-initialisations at most one
\* initialisation succeeds.
C2_CacheHit ==
    /\ inits <= 1
    /\ \A t \in threads :
        (pc[t] = "gate" /\ before[t] # 0) =>
            /\ gate[t].ok
            /\ initLog[t] = NoLog
            /\ vehicle_manager.id = before[t]

\* C2: a state where the case of the claim has happened.
C2_Witness ==
    \E t \in threads :
        pc[t] = "gate" /\ before[t] # 0 /\ gate[t].ok /\ inits = 1

\* C3 as stated: whatever the prior state and the configuration, debug_init
\* runs the authentication attempts once and never answers with the handle
\* cached before.
C3_Original ==
    \A t \in threads :
        pc[t] = "dbg_result" =>
            /\ initLog[t].loops = 1
            /\ initLog[t].constructs >= 1
            /\ vehicle_manager # NoneVM => vehicle_manager.id # before[t]

\* C3, amended: with the three credentials present debug_init runs the attempt
\* set exactly once (at least one and at most attempts x candidates sessions
\* constructed) and a handle it caches is never the one cached before; with a
\* credential missing it constructs nothing and caches the missing-variables reason.
C3_ForceReinitialize ==
    \A t \in threads :
        pc[t] = "dbg_result" =>
            IF MissingNames = {}
            THEN /\ initLog[t].loops = 1
                 /\ initLog[t].constructs >= 1
                 /\ initLog[t].constructs <= InitAttempts * Len(_resolve_region_brand(env))
                 /\ vehicle_manager # NoneVM => vehicle_manager.id # before[t]
                 /\ vehicle_manager = NoneVM => init_error.kind = "failed_after_retries"
            ELSE /\ initLog[t] = NoLog
                 /\ vehicle_manager = NoneVM
                 /\ init_error.kind = "missing"

\* C3: a state where the case of the claim has happened.
C3_Witness ==
    \E t \in threads :
        /\ pc[t] = "dbg_result"
        /\ before[t] # 0
        /\ vehicle_manager # NoneVM
        /\ initLog[t].constructs >= 2

\* The preconditions a snapshot leaves unmet.
ParkEquivalents == {"P", "Park", "park", "int0"}

Unmet(s) ==
    (IF s.locked = "False" THEN {"Doors must be locked"} ELSE {})
    \cup (IF s.any_door_open = "True" THEN {"All doors must be closed"} ELSE {})
    \cup (IF s.hood_open = "True" THEN {"Hood must be closed"} ELSE {})
    \cup (IF s.trunk_open = "True" THEN {"Trunk/tailgate must be closed"} ELSE {})
    \cup (IF s.ignition_on = "True" THEN {"Ignition/ACC must be off"} ELSE {})
    \cup (IF s.gear # None /\ s.gear \notin ParkEquivalents
          THEN {"Transmission must be in Park"} ELSE {})

\* C4: without force, a snapshot that leaves a precondition unmet after the lock
\* remediation ends the request with a 400 listing exactly the unmet
\* preconditions and the snapshot, and no start call; the request goes on to
\* the start call only from a snapshot that leaves none unmet.
C4_PreconditionError ==
    \A t \in threads :
        /\ resp[t].kind = "precondition" =>
              /\ resp[t].status = 400
              /\ resp[t].missing # << >>
              /\ Range(resp[t].missing) = Unmet(resp[t].snapshot)
              /\ Len(resp[t].missing) = Cardinality(Unmet(resp[t].snapshot))
              /\ CountCalls(calls[t], "start_climate") = 0
        /\ (pc[t] = "sc_start" /\ ~loc[t].force) => Unmet(loc[t].snap) = {}

\* C4: a state where the case of the claim has happened.
C4_Witness ==
    \E t \in threads :
        /\ resp[t].kind = "precondition"
        /\ "Hood must be closed" \in Range(resp[t].missing)
        /\ Len(resp[t].missing) >= 2

\* C5: with force set, start_climate never enters the preflight: no lock call,
\* no 400, and the primary start call follows the token and state refresh.
C5_ForceSkipsPreflight ==
    [][\A t \in threads :
        (op[t] = "start_climate" /\ loc[t].force) =>
            /\ pc'[t] # "sc_preflight"
            /\ resp'[t].kind # "precondition"
            /\ CountCalls(calls'[t], "lock") = 0
            /\ pc[t] = "lookup" => pc'[t] \in {"lookup", "sc_start", "done"}
            /\ (pc[t] = "sc_start" /\ pc'[t] # "sc_start") =>
                  /\ Len(calls'[t]) = 3
                  /\ calls'[t][1] = Call("check_and_refresh_token", TRUE, NoOpts)
                  /\ calls'[t][2] = Call("update_all_vehicles_with_cached_state", TRUE, NoOpts)
                  /\ calls'[t][3].name = "start_climate"]_vars

\* C5: a state where the case of the claim has happened.
C5_Witness ==
    \E t \in threads :
        /\ pc[t] = "sc_fallback"
        /\ loc[t].force
        /\ Len(calls[t]) = 3
        /\ calls[t][3].name = "start_climate"

\* C6: the preflight issues exactly one lock call when it reads locked = False
\* and none otherwise, before any start call; a start call follows only a lock
\* call that returned; a lock call that raised
\* ends the request with the 400 of the preconditions, listing only the locked
\* doors when nothing else is unmet, and no start call.
C6_BestEffortLock ==
    \A t \in threads :
        LET cs == calls[t]
            locks == { i \in 1..Len(cs) : cs[i].name = "lock" }
            starts == { i \in 1..Len(cs) : cs[i].name = "start_climate" }
        IN  op[t] = "start_climate" =>
            /\ Cardinality(locks) <= 1
            /\ \A i \in locks : \A j \in starts : i < j /\ cs[i].ok
            /\ (pc[t] = "sc_start" /\ ~loc[t].force) =>
                  (loc[t].seen = "False" <=> Cardinality(locks) = 1)
            /\ (pc[t] = "sc_start" /\ locks # {}) =>
                  /\ loc[t].snap.locked = "True"
                  /\ \A i \in locks : cs[i].ok
            /\ resp[t].kind = "precondition" =>
                  /\ resp[t].status = 400
                  /\ resp[t].snapshot.locked = "False" =>
                        /\ Cardinality(locks) = 1
                        /\ \A i \in locks : ~cs[i].ok
                        /\ starts = {}
                        /\ Unmet(resp[t].snapshot) = {"Doors must be locked"} =>
                              resp[t].missing = << "Doors must be locked" >>
                  /\ (\E i \in locks : cs[i].ok) => resp[t].snapshot.locked = "True"

\* C6: a state where the case of the claim has happened.
C6_Witness ==
    \E t \in threads :
        /\ resp[t].kind = "precondition"
        /\ resp[t].missing = << "Doors must be locked" >>
        /\ Len(calls[t]) = 3
        /\ calls[t][3] = Call("lock", FALSE, NoOpts)

\* Whether a response detail carries the detail of a caught failure.
Mentions(detail, e) ==
    detail \in ({e.text} \cup (IF e.response # None THEN {e.response} ELSE {}))

\* The integer part of a number given in tenths.
WholePart(n) ==
    CHOOSE k \in (0 - 100)..100 :
        \/ n >= 0 /\ 10 * k <= n /\ n < 10 * (k + 1)
        \/ n < 0 /\ 10 * k >= n /\ n > 10 * (k - 1)

InRange(n) == IF n > 30 THEN 30 ELSE IF n < 1 THEN 1 ELSE n

\* The duration C8 states for a request's duration.
ClaimedDuration(d) == IF d.kind = "int" THEN InRange(d.num) ELSE 10

\* The duration int() and the clamp give a request's duration.
SentDuration(d) ==
    CASE d.kind = "int" -> InRange(d.num)
      [] d.kind = "float" -> InRange(WholePart(d.num))
      [] d.kind = "text" /\ d.text \in DOMAIN TextInts -> InRange(TextInts[d.text])
      [] OTHER -> 10

\* C7: a failed primary start call is followed by exactly one fallback call with
\* the capped duration and defrost off (at most two start calls, none after a
\* primary call that returned); when both fail the 500 carries the details of
\* both failures and the request's parameters.
C7_FallbackAndBothDetails ==
    \A t \in threads :
        LET cs == calls[t]
            starts == { i \in 1..Len(cs) : cs[i].name = "start_climate" }
        IN  /\ Cardinality(starts) <= 2
            /\ \A i \in starts : \A j \in starts :
                  i < j => /\ ~cs[i].ok
                           /\ cs[j].opts.duration = FallbackDuration
                           /\ ~cs[j].opts.defrost
            /\ resp[t].kind = "start_failed" =>
                  /\ resp[t].status = 500
                  /\ Mentions(resp[t].detail, resp[t].raised[1])
                  /\ Mentions(resp[t].detail, resp[t].raised[2])

\* C8 as stated: the primary start call carries an integer duration clamped to
\* [1, 30], and 10 for a missing or non-integer duration.
C8_Original ==
    [][\A t \in threads :
        (pc[t] = "sc_start" /\ Len(calls'[t]) > Len(calls[t])) =>
            calls'[t][Len(calls'[t])].opts.duration = ClaimedDuration(loc[t].body.duration)]_vars

\* C8, amended: an integer duration is sent clamped to [1, 30]; a missing
\* duration, or one int() rejects (null, text that is no numeral), is sent as
\* 10; a fractional number or a numeral text is converted by int() (a fraction
\* is dropped) and then clamped.  Every primary start call carries a duration
\* in [1, 30].
C8_DurationClamped ==
    [][\A t \in threads :
        (pc[t] = "sc_start" /\ Len(calls'[t]) > Len(calls[t])) =>
            LET sent == calls'[t][Len(calls'[t])].opts.duration
            IN  /\ sent = SentDuration(loc[t].body.duration)
                /\ sent \in 1..30]_vars

\* C8: a state where the case of the claim has happened.
C8_Witness ==
    \E t \in threads :
        /\ pc[t] = "sc_fallback"
        /\ loc[t].body.duration = Dur("int", 99, "")
        /\ calls[t][Len(calls[t])].name = "start_climate"
        /\ calls[t][Len(calls[t])].opts.duration = MaxDuration

\* C9: status and start_climate answer 404 when the vehicle identifier is not
\* among the refreshed vehicles (and only then), issue no lock or start call
\* for it, and leave the cached handle in place.
C9_NotFound ==
    \A t \in threads :
        (pc[t] = "done" /\ op[t] \in {"status", "start_climate"}) =>
            /\ ( /\ Len(calls[t]) > 0
                 /\ calls[t][Len(calls[t])] =
                        Call("update_all_vehicles_with_cached_state", TRUE, NoOpts)
                 /\ VEHICLE_ID \notin Range(vehicle_manager.vehicles) )
               => /\ resp[t].status = 404
                  /\ resp[t].kind = "not_found"
            /\ resp[t].kind = "not_found" =>
                  /\ resp[t].status = 404
                  /\ VEHICLE_ID \notin Range(vehicle_manager.vehicles)
                  /\ CountCalls(calls[t], "lock") = 0
                  /\ CountCalls(calls[t], "start_climate") = 0
                  /\ vehicle_manager # NoneVM
                  /\ before[t] # 0 => vehicle_manager.id = before[t]

\* C9: a state where the case of the claim has happened.
C9_Witness ==
    \E t \in threads :
        /\ pc[t] = "done"
        /\ op[t] = "start_climate"
        /\ resp[t].status = 404
        /\ before[t] # 0

\* C10: a command that passed its readiness check never finds vehicle_manager
\* None at one of its uses of it.
C10_HandlePresentDuringCommand ==
    \A t \in threads :
        ( /\ gate[t].ok
          /\ op[t] \in {"status", "lock_car", "unlock_car", "start_climate", "stop_climate"}
          /\ pc[t] \in {"token", "update", "list", "command", "lookup", "sc_preflight",
                        "sc_start", "sc_fallback"} )
        => vehicle_manager # NoneVM

\* Whether a request carries the configured shared secret.
PassesSecretCheck(t) == Truthy(SECRET_KEY) /\ hdr[t] = SECRET_KEY

WriteEndpoints == {"lock_car", "unlock_car", "start_climate", "stop_climate"}

CommandCalls == {"lock", "unlock", "start_climate", "stop_climate"}

\* C11: a write request that does not carry the shared secret is answered 403
\* and issues no remote vehicle command.
C11_WriteNeedsSecret ==
    \A t \in threads :
        (op[t] \in WriteEndpoints /\ ~PassesSecretCheck(t)) =>
            /\ \A i \in 1..Len(calls[t]) : calls[t][i].name \notin CommandCalls
            /\ pc[t] = "done" => resp[t].status = 403

\* C12: every request ends with a response its handler returned, with a
\* status among 200, 400, 404 and 500; no exception leaves a handler.
C12_NoUnhandledFault ==
    \A t \in threads :
        pc[t] = "done" =>
            /\ resp[t].kind # "unhandled"
            /\ resp[t].status \in {200, 400, 404, 500}

\* The endpoints behind the readiness gate.
GatedEndpoints == Endpoints \ {"health", "debug_init"}

\* C13: a request whose readiness check reported not ready answers 500 with
\* the cached failure reason and issues no library call; a request that issued
\* a call had a readiness check that succeeded.
C13_GateFirst ==
    \A t \in threads :
        op[t] \in GatedEndpoints =>
            /\ (gate[t].returned /\ ~gate[t].ok) =>
                  /\ calls[t] = << >>
                  /\ pc[t] \in {"gate", "done"}
                  /\ gate[t].msg = init_error
                  /\ init_error # NoError
                  /\ pc[t] = "done" =>
                        resp[t] = [status |-> 500, kind |-> "not_ready", error |-> init_error]
            /\ calls[t] # << >> => gate[t].ok

\* C13: a state where the case of the claim has happened.
C13_Witness ==
    \E t \in threads :
        /\ op[t] = "stop_climate"
        /\ pc[t] = "done"
        /\ ~gate[t].ok
        /\ resp[t].kind = "not_ready"
        /\ resp[t].error.kind = "failed_after_retries"

\* C14: once a candidate authenticated and fetched an empty vehicle set, the
\* run constructs no further session, and the cached reason is the no-vehicles
\* message itself, not the retries-exhausted message around it.
C14_NoVehiclesTerminal ==
    [][\A t \in threads :
        /\ ini[t].last_err = "no_vehicles" =>
              initLog'[t].constructs <= initLog[t].constructs
        /\ init_error'.err = "no_vehicles" => init_error'.kind = "no_vehicles"]_vars

\* C15: the cache never holds a handle and a failure reason together, the
\* moment between lines 128 and 129 of the thread that stores the handle aside.
C15_HandleOrReason ==
    (vehicle_manager # NoneVM /\ \A t \in threads : pc[t] # "init_set_err") =>
        init_error = NoError

\* The candidates of the configuration.
Candidates == _resolve_region_brand(env)

InInit(t) == pc[t] \in {"init_try", "init_set_vm", "init_set_err", "init_fail"}

\* What C16 says of the states of one initialisation run.
C16_Bounds ==
    /\ Len(Candidates) >= 1
    /\ Candidates[Len(Candidates)] = _int_candidate(env)
    /\ \A t \in threads :
        /\ initLog[t].loops <= 1
        /\ initLog[t].constructs <= 2 * Len(Candidates)
        /\ pc[t] = "init_try" =>
              /\ ini[t].attempt \in 1..2
              /\ ini[t].idx \in 1..Len(Candidates)
              /\ initLog[t].constructs =
                    (ini[t].attempt - 1) * Len(Candidates) + (ini[t].idx - 1)
        /\ pc[t] = "init_fail" =>
              /\ initLog[t].constructs = 2 * Len(Candidates)
              /\ ini[t].last_err # None

\* What C16 says of the steps of one initialisation run: a candidate that
\* succeeds ends the tries; the run ends with the handle cached or with the
\* reason carrying the last error.
C16_Steps ==
    \A t \in threads :
        /\ (pc[t] \in {"init_set_vm", "init_set_err"}) =>
              /\ initLog'[t].constructs = initLog[t].constructs
              /\ pc'[t] # "init_try"
        /\ (InInit(t) /\ ~InInit(t)') =>
              \/ vehicle_manager' = ini[t].vm /\ vehicle_manager' # NoneVM
              \/ init_error' = FailedError(ini[t].last_err) /\ ini[t].last_err # None

\* C16: with the credentials set, an initialisation run makes at most two
\* attempts over the candidates in their order (the integer pair last, the
\* list never empty), constructs at most 2 x candidates sessions, stops at the
\* first candidate that succeeds, ends with a handle or with the reason
\* carrying the last error, and always ends.
C16_InitTerminates ==
    /\ []C16_Bounds
    /\ [][C16_Steps]_vars
    /\ (InInit("t1") ~> ~InInit("t1"))

\* C16: a state where the case of the claim has happened.
C16_Witness ==
    \E t \in threads :
        /\ pc[t] = "init_fail"
        /\ Len(Candidates) = 3
        /\ initLog[t].constructs = 6

\* C17: the fallback start call of a request carries a duration no greater
\* than that of its primary call, defrost off, and the primary call's temperature.
C17_FallbackReduced ==
    \A t \in threads :
        LET cs == calls[t]
            starts == { i \in 1..Len(cs) : cs[i].name = "start_climate" }
        IN  \A i \in starts : \A j \in starts :
                i < j => /\ cs[j].opts.duration <= cs[i].opts.duration
                         /\ ~cs[j].opts.defrost
                         /\ cs[j].opts.temp = cs[i].opts.temp

\* The commands of C18 and the statuses of their error responses.
CommandEndpoints == {"status", "lock_car", "unlock_car", "start_climate", "stop_climate"}

FailedCommand(t) ==
    op[t] \in CommandEndpoints /\ pc[t] = "done" /\ resp[t].status \in {400, 404, 500}

\* C18 as stated: a command request that ends in an error leaves the cached
\* handle and the cached failure reason as they were when it arrived.
C18_Original ==
    \A t \in threads :
        FailedCommand(t) => (vehicle_manager.id = before[t] /\ init_error = reason[t])

\* What C18, amended, says of the states: a failed command request that
\* arrived with a handle cached leaves the handle and the reason as they were.
C18_Kept ==
    \A t \in threads :
        (FailedCommand(t) /\ before[t] # 0) =>
            (vehicle_manager.id = before[t] /\ init_error = reason[t])

\* What C18, amended, says of the steps: only the readiness check of a request
\* that found no handle writes the cache, no step after the readiness check
\* does, and only the reset of debug_init removes or replaces a cached handle.
C18_Steps ==
    /\ \A t \in threads :
          (op[t] \in CommandEndpoints /\ gate[t].returned /\ pc[t] # "idle") =>
              (vehicle_manager'.id = vehicle_manager.id /\ init_error' = init_error)
    /\ (vehicle_manager # NoneVM /\ vehicle_manager'.id # vehicle_manager.id) =>
          \E t \in threads : op[t] = "debug_init" /\ pc[t] = "dbg_reset"
    /\ (init_error' # init_error \/ vehicle_manager'.id # vehicle_manager.id) =>
          \E t \in threads :
              \/ op[t] = "debug_init"
              \/ ~gate[t].returned /\ before[t] = 0

\* C18, amended: a failed command request that arrived with a handle cached
\* leaves the handle and the failure reason unchanged; a request that arrived
\* with no handle cached may store a handle or a reason in its readiness check,
\* never after it; a cached handle is removed only by debug_init.
C18_FailedCommandKeepsSession == []C18_Kept /\ [][C18_Steps]_vars

\* C18: a state where the case of the claim has happened.
C18_Witness ==
    \E t \in threads :
        /\ op[t] = "lock_car"
        /\ pc[t] = "done"
        /\ resp[t] = HandlerError("lock_car")
        /\ before[t] # 0
        /\ vehicle_manager.id = before[t]

\* A readiness check of a request that arrived with a remote failure cached
\* and no handle.
AfterFailure(t) ==
    /\ op[t] \notin {"idle", "debug_init"}
    /\ before[t] = 0
    /\ reason[t].kind = "failed_after_retries"

\* What C19 says of the states: the readiness check after a cached remote
\* failure has run the initialisation again, and is ready, with the handle
\* cached and the reason cleared, exactly when a candidate succeeded.
C19_Reruns ==
    \A t \in threads :
        AfterFailure(t) =>
            /\ pc[t] \in {"init_try", "init_set_vm", "init_set_err", "init_fail", "ens_check",
                          "gate"} => initLog[t].loops = 1
            /\ pc[t] \in {"ens_check", "gate"} =>
                  /\ initLog[t].constructs >= 1
                  /\ vehicle_manager = NoneVM => init_error.kind = "failed_after_retries"
                  /\ vehicle_manager # NoneVM => init_error = NoError
            /\ pc[t] = "gate" => (gate[t].ok <=> vehicle_manager # NoneVM)

\* The remote service accepted a candidate of the run: authenticated, with vehicles.
Accepted(t) == AfterFailure(t) /\ pc[t] = "init_set_vm" /\ ini[t].vm.vehicles # << >>

Recovered(t) ==
    /\ AfterFailure(t)
    /\ pc[t] = "ens_check"
    /\ vehicle_manager # NoneVM
    /\ init_error = NoError

\* C19: a cached remote failure does not stop later readiness checks from
\* initialising again; once the remote service accepts, the check ends ready
\* with the handle cached and the reason cleared, with no debug_init.
C19_FailureNotSticky ==
    /\ []C19_Reruns
    /\ (Accepted("t1") ~> Recovered("t1"))

\* C19: a state where the case of the claim has happened.
C19_Witness ==
    \E t \in threads :
        /\ AfterFailure(t)
        /\ op[t] = "lock_car"
        /\ pc[t] = "gate"
        /\ gate[t].ok
        /\ init_error = NoError

\* C20: with no VEHICLE_ID configured, every initialisation that succeeds
\* leaves as the default identifier the first identifier of the vehicle set
\* it fetched.
C20_DefaultFromFetchedSet ==
    [][\A t \in threads :
        (~Truthy(env.VEHICLE_ID) /\ pc[t] = "init_try" /\ pc'[t] = "init_set_vm") =>
            /\ VEHICLE_ID' \in Range(ini'[t].vm.vehicles)
            /\ VEHICLE_ID' = ini'[t].vm.vehicles[1]]_vars

====
